---- MODULE Spec2Model ----
(***************************************************************************)
(* Flexisip: the push-notification Service (client registry, request       *)
(* construction and dispatch) and the ConferenceAddressGenerator (the      *)
(* conference address allocator), and the FilesystemEventLogWriter.        *)
(*                                                                         *)
(* Specifications:                                                         *)
(*   Spec          the push-notification Service and its clients           *)
(*   SpecConf      the allocator against a registrar that answers every    *)
(*                 fetch and bind exactly once (a record or an error)      *)
(*   SpecConfLate  SpecConf, plus callbacks delivered to the allocator     *)
(*                 when it has no request outstanding                      *)
(*   SpecLog       the FilesystemEventLogWriter                            *)
(***************************************************************************)
EXTENDS Naturals, Sequences, FiniteSets, TLC

(***************************************************************************)
(* Bounds of the model.                                                    *)
(***************************************************************************)
\* Largest maxQueueSize a Service is constructed with.
MaxQueueSize == 2
\* Cap on the requests outstanding (queued or in flight) over all clients.
MaxOutstanding == 2
\* Longest firebase-projects-api-keys / firebase-service-accounts list.
MaxListLen == 2
\* Longest directory listing read by setupiOSClient.
MaxDirLen == 2
\* Most collisions the registrar reports to one allocator.
MaxCollisions == 2
\* Most contacts of a registrar record.
MaxContacts == 2
\* Most callbacks delivered to an allocator that has no request outstanding.
MaxLate == 2
\* Most event logs handed to FilesystemEventLogWriter::write.
MaxWrites == 2

VARIABLES
    mClients,       \* Service::mClients: name -> client (or a null pointer)
    mMaxQueueSize,  \* Service::mMaxQueueSize
    running,        \* FALSE during setup, TRUE once the Service is in use
    alive,          \* FALSE once the process has crashed
    ret,            \* the last operation, its argument and its outcome
    mState,         \* ConferenceAddressGenerator::mState
    mConferenceAddr,\* the user part of mConferenceAddr, the candidate address
    started,        \* run() has been called by the allocator's owner
    pending,        \* the request the registrar has not answered yet
    setCalls,       \* the arguments of the calls of mChatRoom->setConferenceAddress
    logged,         \* the fatal error logged by LOGF, "none" without one
    halted,         \* the conference server's process has ended
    nFetch,         \* the fetches emitted (RegistrarDb::fetch)
    nBind,          \* the binds emitted (ConferenceServer::bindChatRoom)
    nChange,        \* the calls of changeAddress
    nCollision,     \* the non-empty records delivered in Fetching
    lastFetch,      \* the last fetch emitted: its URI and the answer to it
    bindUri,        \* the URI of the last bind emitted
    last,           \* the last callback delivered: kind, state it found, record
    late,           \* the callbacks delivered with no request outstanding
    userLog,        \* users/<domain>/<user>/<kind>/<date>.log: the entries written
    errorLog,       \* errors/<kind>/<code>/<date>.log: the entries written
    nWrites,        \* the calls of FilesystemEventLogWriter::write
    lastWrite,      \* the last event log handed to write
    fsState         \* what the file system does with each file, see FsOutcomes

pushVars == <<mClients, mMaxQueueSize, running, alive, ret>>

confVars == <<mState, mConferenceAddr, started, pending, setCalls, logged, halted,
              nFetch, nBind, nChange, nCollision, lastFetch, bindUri, last, late>>

logVars == <<userLog, errorLog, nWrites, lastWrite, fsState>>

vars == <<pushVars, confVars, logVars>>

(***************************************************************************)
(* The registry: a std::map from client names to (possibly null) clients.  *)
(***************************************************************************)
sGenericClientName == "generic"
sFallbackClientKey == "fallback"

\* A null std::shared_ptr<Client>.
Null == [kind |-> "null"]

\* std::map::find(k) != cend()
Find(m, k) == k \in DOMAIN m

\* m[k] = v  (std::map::operator[] followed by assignment)
Put(m, k, v) == [x \in (DOMAIN m) \cup {k} |-> IF x = k THEN v ELSE m[x]]

\* find(k) != cend() && it->second != nullptr
Has(m, k) == Find(m, k) /\ m[k] # Null

(***************************************************************************)
(* Clients.  A client is built with or without a queue limit; its queue    *)
(* and its requests in flight are counted.                                 *)
(***************************************************************************)
NewClient(kind, hasLimit, maxQueueSize) ==
    [kind |-> kind, hasLimit |-> hasLimit, maxQueueSize |-> maxQueueSize,
     queue |-> 0, inflight |-> 0]

\* Client::isIdle(): nothing queued and nothing in progress.
ClientIsIdle(c) == c.queue = 0 /\ c.inflight = 0

\* The queue is full: an enqueue is rejected with QueueFull.
ClientQueueFull(c) == c.hasLimit /\ c.queue >= c.maxQueueSize

\* Client::sendPush(request) on a queue that is not full.
ClientEnqueue(c) == [c EXCEPT !.queue = @ + 1]

\* Clients handed to setFallbackClient by the Service's owner.
ExternalClients == {NewClient("External", FALSE, 0)}

(***************************************************************************)
(* Inputs.                                                                 *)
(***************************************************************************)
PushTypes == {"Message", "Call"}
\* Provider tags: pInfo->getDestination(pType).getParam()
Tags == {"app1", "app2", "other", "fallback"}
PushInfos ==
    {[Message |-> "app1", Call |-> "app2"], [Message |-> "app2", Call |-> "other"],
     [Message |-> "other", Call |-> "fallback"], [Message |-> "fallback", Call |-> "app1"]}
\* Request::getAppIdentifier()
AppIdentifiers == {"app1", "app2", "other", "generic", "fallback"}
Methods == {"HttpGet", "HttpPost", "Other"}
Protocols == {"Http", "Http2"}

Ret(op, arg, out, client) == [op |-> op, arg |-> arg, out |-> out, client |-> client]

\* Service::Service: an empty registry.
InitPush ==
    /\ mClients = <<>>
    /\ mMaxQueueSize \in 1..MaxQueueSize
    /\ running = FALSE
    /\ alive = TRUE
    /\ ret = Ret("new", "-", "ok", "-")

(***************************************************************************)
(* Service::makeRequest                                                    *)
(***************************************************************************)
\* MakeRequestClient with the provider's client looked up before the generic one.
MakeRequestClient_ProviderFirst(m, tag) ==
    IF Has(m, tag) THEN tag
    ELSE IF Has(m, sGenericClientName) THEN sGenericClientName
    ELSE IF Has(m, sFallbackClientKey) THEN sFallbackClientKey
    ELSE "none"

\* The client that builds the request for provider tag `tag`, or "none".
MakeRequestClient(m, tag) ==
    IF Has(m, sGenericClientName) THEN sGenericClientName
    ELSE IF Has(m, tag) THEN tag
    ELSE IF Has(m, sFallbackClientKey) THEN sFallbackClientKey
    ELSE "none"

MakeRequest(pType, pInfo) ==
    LET tag == pInfo[pType]
        c == MakeRequestClient(mClients, tag)
    IN /\ alive /\ running
       /\ ret' = Ret("makeRequest", tag,
                     IF c = "none" THEN "UnsupportedProvider" ELSE "ok", c)
       /\ UNCHANGED <<mClients, mMaxQueueSize, running, alive, confVars, logVars>>

\* The requests queued or in flight over the clients of the registry.
RECURSIVE OutstandingOf(_, _)
OutstandingOf(m, names) ==
    IF names = {} THEN 0
    ELSE LET k == CHOOSE x \in names : TRUE
         IN (IF m[k] = Null THEN 0 ELSE m[k].queue + m[k].inflight)
            + OutstandingOf(m, names \ {k})

Outstanding(m) == OutstandingOf(m, DOMAIN m)

(***************************************************************************)
(* Service::sendPush                                                       *)
(***************************************************************************)
\* SendPushClient with the fallback client preferred to the application's.
SendPushClient_FallbackFirst(m, appId) ==
    IF Has(m, sFallbackClientKey) THEN sFallbackClientKey
    ELSE IF Has(m, appId) THEN appId
    ELSE "none"

\* The client the request is handed to, or "none".
SendPushClient(m, appId) ==
    IF Has(m, appId) THEN appId
    ELSE IF Has(m, sFallbackClientKey) THEN sFallbackClientKey
    ELSE "none"

SendPush(appId) ==
    LET k == SendPushClient(mClients, appId)
    IN /\ alive /\ running
       /\ IF k = "none"
          THEN /\ ret' = Ret("sendPush", appId, "NoClientAvailable", "none")
               /\ UNCHANGED mClients
          ELSE IF ClientQueueFull(mClients[k])
          THEN /\ ret' = Ret("sendPush", appId, "QueueFull", k)
               /\ UNCHANGED mClients
          ELSE /\ Outstanding(mClients) < MaxOutstanding
               /\ ret' = Ret("sendPush", appId, "ok", k)
               /\ mClients' = [mClients EXCEPT ![k] = ClientEnqueue(@)]
       /\ UNCHANGED <<mMaxQueueSize, running, alive, confVars, logVars>>

(***************************************************************************)
(* The clients' own progress: a queued request is sent, a sent request     *)
(* completes.                                                              *)
(***************************************************************************)
ClientDispatch(k) ==
    /\ alive /\ running
    /\ Has(mClients, k)
    /\ mClients[k].queue > 0
    /\ mClients' = [mClients EXCEPT ![k] = [@ EXCEPT !.queue = @ - 1, !.inflight = @ + 1]]
    /\ ret' = Ret("dispatch", k, "ok", k)
    /\ UNCHANGED <<mMaxQueueSize, running, alive, confVars, logVars>>

ClientComplete(k) ==
    /\ alive /\ running
    /\ Has(mClients, k)
    /\ mClients[k].inflight > 0
    /\ mClients' = [mClients EXCEPT ![k] = [@ EXCEPT !.inflight = @ - 1]]
    /\ ret' = Ret("complete", k, "ok", k)
    /\ UNCHANGED <<mMaxQueueSize, running, alive, confVars, logVars>>

(***************************************************************************)
(* Service::isIdle                                                         *)
(***************************************************************************)
\* all_of over the registry, every entry dereferenced.
AllIdle(m) == \A k \in DOMAIN m : ClientIsIdle(m[k])

\* kv.second->isIdle() on a null entry is undefined behaviour.
IsIdleDerefsNull(m) == \E k \in DOMAIN m : m[k] = Null

IsIdle ==
    /\ alive /\ running
    /\ IF IsIdleDerefsNull(mClients)
       THEN \E o \in {"crash", "true", "false"} :
               /\ ret' = Ret("isIdle", "-", o, "-")
               /\ alive' = (o # "crash")
       ELSE /\ ret' = Ret("isIdle", "-", IF AllIdle(mClients) THEN "true" ELSE "false", "-")
            /\ UNCHANGED alive
    /\ UNCHANGED <<mClients, mMaxQueueSize, running, confVars, logVars>>

(***************************************************************************)
(* Service::setupGenericClient                                             *)
(***************************************************************************)
\* SetupGenericClient with the "generic" entry created (operator[]) before the
\* method is checked.
SetupGenericClient_InsertBeforeCheck(method, protocol) ==
    /\ alive /\ ~running
    /\ IF method # "HttpGet" /\ method # "HttpPost"
       THEN /\ ret' = Ret("setupGenericClient", method, "InvalidArgument", "-")
            /\ mClients' = Put(mClients, sGenericClientName, Null)
       ELSE /\ ret' = Ret("setupGenericClient", method, "ok", sGenericClientName)
            /\ mClients' =
                 IF protocol = "Http"
                 THEN Put(mClients, sGenericClientName,
                          NewClient("GenericHttp", TRUE, mMaxQueueSize))
                 ELSE Put(mClients, sGenericClientName,
                          NewClient("GenericHttp2", FALSE, 0))
    /\ UNCHANGED <<mMaxQueueSize, running, alive, confVars, logVars>>

SetupGenericClient(method, protocol) ==
    /\ alive /\ ~running
    /\ IF method # "HttpGet" /\ method # "HttpPost"
       THEN /\ ret' = Ret("setupGenericClient", method, "InvalidArgument", "-")
            /\ UNCHANGED mClients
       ELSE /\ ret' = Ret("setupGenericClient", method, "ok", sGenericClientName)
            /\ mClients' =
                 IF protocol = "Http"
                 THEN Put(mClients, sGenericClientName,
                          NewClient("GenericHttp", TRUE, mMaxQueueSize))
                 ELSE Put(mClients, sGenericClientName,
                          NewClient("GenericHttp2", FALSE, 0))
    /\ UNCHANGED <<mMaxQueueSize, running, alive, confVars, logVars>>

(***************************************************************************)
(* Service::setFallbackClient                                              *)
(***************************************************************************)
SetFallbackClient(fallbackClient) ==
    /\ alive /\ ~running
    /\ mClients' = Put(mClients, sFallbackClientKey, fallbackClient)
    /\ ret' = Ret("setFallbackClient", fallbackClient.kind, "ok", sFallbackClientKey)
    /\ UNCHANGED <<mMaxQueueSize, running, alive, confVars, logVars>>

(***************************************************************************)
(* Service::setupFirebaseClients, addFirebaseClient, addFirebaseV1Client   *)
(***************************************************************************)
\* The application ids and the values (api key, file path) of the lists.
AppIdTexts == {"app1", "app2"}
ValueTexts == {"k", "/p", "/p:x"}
\* "appId:apiKey" entries of firebase-projects-api-keys.
FirebaseKeyVals == {"app1:k", "app2:k"}
\* "appId:filePath" entries of firebase-service-accounts.
FirebaseAccountVals == {"app1:/p", "app2:/p:x"}

\* keyval.find(":") != npos
HasSep(keyval) == \E a \in AppIdTexts, v \in ValueTexts : keyval = a \o ":" \o v

\* keyval.substr(0, sep): the text before the first ":" (all of it without one).
KeyOf(keyval) ==
    IF HasSep(keyval)
    THEN CHOOSE a \in AppIdTexts : \E v \in ValueTexts : keyval = a \o ":" \o v
    ELSE keyval

\* addFirebaseClient(appId, apiKey)
AddFirebaseClient(m, appId) == Put(m, appId, NewClient("Firebase", FALSE, 0))

\* addFirebaseV1Client(appId, filePath, ...)
AddFirebaseV1Client(m, appId) == Put(m, appId, NewClient("FirebaseV1", FALSE, 0))

\* The first loop: one legacy client per entry of firebase-projects-api-keys.
RECURSIVE AddFirebaseKeys(_, _)
AddFirebaseKeys(m, keys) ==
    IF keys = <<>> THEN m
    ELSE AddFirebaseKeys(AddFirebaseClient(m, KeyOf(Head(keys))), Tail(keys))

\* The second loop: one v1 client per entry of firebase-service-accounts; it
\* throws at the first appId the registry already holds.
RECURSIVE AddFirebaseAccounts(_, _)
AddFirebaseAccounts(m, accounts) ==
    IF accounts = <<>> THEN [clients |-> m, thrown |-> FALSE]
    ELSE IF Find(m, KeyOf(Head(accounts))) THEN [clients |-> m, thrown |-> TRUE]
    ELSE AddFirebaseAccounts(AddFirebaseV1Client(m, KeyOf(Head(accounts))), Tail(accounts))

\* The appIds of a list of "appId:value" entries.
AppIdsOf(list) == {KeyOf(list[i]) : i \in DOMAIN list}

\* The same appId appears in both lists.
CommonAppId(keys, accounts) == AppIdsOf(keys) \cap AppIdsOf(accounts) # {}

SetupFirebaseClients(firebaseKeys, firebaseServiceAccounts) ==
    LET r == AddFirebaseAccounts(AddFirebaseKeys(mClients, firebaseKeys),
                                 firebaseServiceAccounts)
    IN /\ alive /\ ~running
       /\ mClients' = r.clients
       /\ ret' = [op |-> "setupFirebaseClients",
                   arg |-> IF CommonAppId(firebaseKeys, firebaseServiceAccounts)
                           THEN "common" ELSE "disjoint",
                   out |-> IF r.thrown THEN "DuplicateAppId" ELSE "ok",
                   client |-> "-",
                   keyIds |-> AppIdsOf(firebaseKeys),
                   accountIds |-> AppIdsOf(firebaseServiceAccounts)]
       /\ UNCHANGED <<mMaxQueueSize, running, alive, confVars, logVars>>

\* The lists of at most MaxListLen entries over a set of entries.
ListsOf(S) == UNION {[1..n -> S] : n \in 0..MaxListLen}

(***************************************************************************)
(* Service::setupiOSClient                                                 *)
(***************************************************************************)
\* Names a directory entry can have.
FileNames == {"..", ".pem", "app1.pem", "app2.pem", "app1.txt"}
CertNameTexts == {"", "app1", "app2"}
\* The certificate files among them.
CertFiles == {"app1.pem", "app2.pem"}

\* cert ends with suffix
EndsWith(cert, suffix) == \E s \in CertNameTexts : cert = s \o suffix

\* The entries the loop skips: ".", "..", names no longer than ".pem", names
\* that do not end with ".pem".
SkippedEntry(cert) ==
    \/ cert = "."
    \/ cert = ".."
    \/ Len(cert) <= Len(".pem")
    \/ ~EndsWith(cert, ".pem")

\* cert.substr(0, cert.size() - 4)
CertName(cert) == CHOOSE s \in CertNameTexts : cert = s \o ".pem"

\* ScanCertDir with the scan ended by the first certificate whose AppleClient
\* cannot be built (the exception caught outside the loop).
RECURSIVE ScanCertDir_AbortOnFailure(_, _, _)
ScanCertDir_AbortOnFailure(m, entries, failing) ==
    IF entries = <<>> THEN m
    ELSE LET cert == Head(entries)
         IN IF SkippedEntry(cert)
            THEN ScanCertDir_AbortOnFailure(m, Tail(entries), failing)
            ELSE IF cert \in failing THEN m
            ELSE ScanCertDir_AbortOnFailure(Put(m, CertName(cert), NewClient("Apple", FALSE, 0)),
                                            Tail(entries), failing)

\* The readdir loop; the certificates in `failing` make the AppleClient
\* constructor throw TlsConnection::CreationError.  The right operand of
\* `mClients[certName] = make_unique<AppleClient>(...)` is evaluated before
\* the left one (C++17, which std::filesystem in this file requires), so the
\* exception leaves before operator[] creates the entry.
RECURSIVE ScanCertDir(_, _, _)
ScanCertDir(m, entries, failing) ==
    IF entries = <<>> THEN m
    ELSE LET cert == Head(entries)
         IN IF SkippedEntry(cert) \/ cert \in failing
            THEN ScanCertDir(m, Tail(entries), failing)
            ELSE ScanCertDir(Put(m, CertName(cert), NewClient("Apple", FALSE, 0)),
                             Tail(entries), failing)

\* The listings readdir can produce: no name twice.
DirListings ==
    {e \in UNION {[1..n -> FileNames] : n \in 0..MaxDirLen} :
        \A i, j \in DOMAIN e : i # j => e[i] # e[j]}

SetupiOSClient(opened, entries, failing) ==
    /\ alive /\ ~running
    /\ mClients' = IF opened THEN ScanCertDir(mClients, entries, failing) ELSE mClients
    /\ ret' = [op |-> "setupiOSClient",
                arg |-> IF opened THEN "opened" ELSE "notOpened",
                out |-> "ok", client |-> "-",
                certs |-> SelectSeq(entries, LAMBDA e : e \in CertFiles),
                failing |-> failing]
    /\ UNCHANGED <<mMaxQueueSize, running, alive, confVars, logVars>>

(***************************************************************************)
(* The registry is filled during setup and only read afterwards: the       *)
(* owner of the Service ends the setup and starts using it.                *)
(***************************************************************************)
StartService ==
    /\ alive /\ ~running
    /\ running' = TRUE
    /\ ret' = Ret("start", "-", "ok", "-")
    /\ UNCHANGED <<mClients, mMaxQueueSize, alive, confVars, logVars>>

NextPush ==
    \/ \E pType \in PushTypes, pInfo \in PushInfos : MakeRequest(pType, pInfo)
    \/ \E appId \in AppIdentifiers : SendPush(appId)
    \/ \E k \in DOMAIN mClients : ClientDispatch(k)
    \/ \E k \in DOMAIN mClients : ClientComplete(k)
    \/ IsIdle
    \/ \E method \in Methods, protocol \in Protocols : SetupGenericClient(method, protocol)
    \/ \E c \in ExternalClients \cup {Null} : SetFallbackClient(c)
    \/ \E keys \in ListsOf(FirebaseKeyVals), accounts \in ListsOf(FirebaseAccountVals) :
          SetupFirebaseClients(keys, accounts)
    \/ StartService
    \/ SetupiOSClient(FALSE, <<>>, {})
    \/ \E entries \in DirListings :
          \E failing \in SUBSET (CertFiles \cap {entries[i] : i \in DOMAIN entries}) :
             SetupiOSClient(TRUE, entries, failing)

(***************************************************************************)
(* ConferenceAddressGenerator                                              *)
(***************************************************************************)
\* The random tokens belle_sip_random_token can draw.
Tokens == {"t1", "t2"}
\* conference::CHATROOM_PREFIX
CHATROOM_PREFIX == "chatroom-"
\* The public GRUUs a contact can carry; "none" is a contact without one.
Gruus == {"g1", "g2"}
Contacts == [updated : 1..MaxContacts, gruu : Gruus \cup {"none"}]

\* A null std::shared_ptr<Record>.
NullRecord == [null |-> TRUE]
\* The records of the registrar: contacts updated at different times.
Records ==
    {[contacts |-> c] : c \in {c \in SUBSET Contacts :
        /\ Cardinality(c) <= MaxContacts
        /\ \A x, y \in c : x # y => x.updated # y.updated}}

\* Record::isEmpty()
IsEmpty(r) == r.contacts = {}

\* r && !r->isEmpty(), inverted.
IsCollision_Inverted(r) == ~(r # NullRecord /\ ~IsEmpty(r))

\* r && !r->isEmpty(): the candidate address is taken.
IsCollision(r) == r # NullRecord /\ ~IsEmpty(r)

\* The contact updated first.
Latest_Earliest(r) == CHOOSE x \in r.contacts : \A y \in r.contacts : x.updated <= y.updated

\* *r->getExtendedContacts().latest(): the contact updated last.
Latest(r) == CHOOSE x \in r.contacts : \A y \in r.contacts : y.updated <= x.updated

\* mConferenceAddr->asStringUriOnly()
AsStringUriOnly(user) == "sip:" \o user \o "@conf"

\* url_as_string(mHome.home(), pub_gruu)
UrlAsString(gruu) == "sip:conf@conf;gr=" \o gruu

\* linphone::Factory::get()->createAddress(str)
CreateAddress(str) == [uri |-> str]

NoRequest == [kind |-> "none"]
NoCallback == [n |-> 0, cb |-> "none", state |-> "-", r |-> NullRecord]
NoFetch == [uri |-> "-", answer |-> "-"]

\* After ConferenceAddressGenerator::ConferenceAddressGenerator.
InitConf ==
    /\ mState = "Fetching"
    /\ mConferenceAddr \in {CHATROOM_PREFIX \o t : t \in Tokens}
    /\ started = FALSE
    /\ pending = NoRequest
    /\ setCalls = <<>>
    /\ logged = "none"
    /\ halted = FALSE
    /\ nFetch = 0
    /\ nBind = 0
    /\ nChange = 0
    /\ nCollision = 0
    /\ lastFetch = NoFetch
    /\ bindUri = "-"
    /\ last = NoCallback
    /\ late = 0


\* The answer a fetch got, for lastFetch.
AnswerOf(r) == IF r = NullRecord THEN "absent" ELSE IF IsEmpty(r) THEN "empty" ELSE "non-empty"

\* run(): RegistrarDb::get()->fetch(url, shared_from_this(), false, false)
\* for the candidate address `user`.
RunFetch(user) ==
    /\ pending' = [kind |-> "fetch", uri |-> AsStringUriOnly(user)]
    /\ lastFetch' = [uri |-> AsStringUriOnly(user), answer |-> "pending"]
    /\ nFetch' = nFetch + 1

\* The owner of the allocator calls run() once, after building it.
Run ==
    /\ ~started /\ ~halted
    /\ started' = TRUE
    /\ RunFetch(mConferenceAddr)
    /\ UNCHANGED <<mState, mConferenceAddr, setCalls, logged, halted, nBind, nChange,
                   nCollision, bindUri, last, late, pushVars, logVars>>

\* OnRecordFoundFetching with the retry capped: a second collision in a row
\* ends the allocation with AddressExhaustion instead of a new fetch.
OnRecordFoundFetching_Capped(r) ==
    IF IsCollision(r) /\ nCollision >= 1
    THEN /\ logged' = "AddressExhaustion"
         /\ pending' = NoRequest
         /\ UNCHANGED <<mState, mConferenceAddr, setCalls, halted, nFetch, nBind, nChange,
                        lastFetch, bindUri>>
    ELSE IF IsCollision(r)
    THEN \E token \in Tokens :
            /\ mConferenceAddr' = CHATROOM_PREFIX \o token
            /\ nChange' = nChange + 1
            /\ RunFetch(CHATROOM_PREFIX \o token)
            /\ UNCHANGED <<mState, setCalls, logged, halted, nBind, bindUri>>
    ELSE /\ mState' = "Binding"
         /\ pending' = [kind |-> "bind", uri |-> AsStringUriOnly(mConferenceAddr)]
         /\ bindUri' = AsStringUriOnly(mConferenceAddr)
         /\ nBind' = nBind + 1
         /\ lastFetch' = [lastFetch EXCEPT !.answer = AnswerOf(r)]
         /\ UNCHANGED <<mConferenceAddr, setCalls, logged, halted, nFetch, nChange>>

\* onRecordFound in the Fetching state.
OnRecordFoundFetching(r) ==
    IF IsCollision(r)
    THEN \* changeAddress(); run();
         \E token \in Tokens :
            /\ mConferenceAddr' = CHATROOM_PREFIX \o token
            /\ nChange' = nChange + 1
            /\ RunFetch(CHATROOM_PREFIX \o token)
            /\ UNCHANGED <<mState, setCalls, logged, halted, nBind, bindUri>>
    ELSE \* mState = State::Binding; mConferenceServer->bindChatRoom(...)
         /\ mState' = "Binding"
         /\ pending' = [kind |-> "bind", uri |-> AsStringUriOnly(mConferenceAddr)]
         /\ bindUri' = AsStringUriOnly(mConferenceAddr)
         /\ nBind' = nBind + 1
         /\ lastFetch' = [lastFetch EXCEPT !.answer = AnswerOf(r)]
         /\ UNCHANGED <<mConferenceAddr, setCalls, logged, halted, nFetch, nChange>>

\* LOGF(msg): the fatal error is logged; the process may end there.
LogFatal(msg) ==
    /\ logged' = msg
    /\ halted' \in BOOLEAN

\* onRecordFound in the Binding state, on a record that is not null.
OnRecordFoundBinding(r) ==
    /\ pending' = NoRequest
    /\ IF r.contacts = {}
       THEN /\ LogFatal("BindFailed")
            /\ UNCHANGED setCalls
       ELSE IF Latest(r).gruu = "none"
       THEN /\ LogFatal("NoGruu")
            /\ UNCHANGED setCalls
       ELSE /\ setCalls' = Append(setCalls, CreateAddress(UrlAsString(Latest(r).gruu)))
            /\ UNCHANGED <<logged, halted>>
    /\ UNCHANGED <<mState, mConferenceAddr, nFetch, nBind, nChange, lastFetch, bindUri>>

\* r->getExtendedContacts() on a null record is undefined behaviour: the
\* process crashes, or the handler goes on with whatever it reads.
OnRecordFoundBindingNull ==
    \/ /\ halted' = TRUE
       /\ pending' = NoRequest
       /\ UNCHANGED <<mState, mConferenceAddr, setCalls, logged, nFetch, nBind, nChange,
                      lastFetch, bindUri>>
    \/ \E garbage \in Records : OnRecordFoundBinding(garbage)

\* ConferenceAddressGenerator::onRecordFound
OnRecordFound(r) ==
    /\ last' = [n |-> last.n + 1, cb |-> "record", state |-> mState, r |-> r]
    /\ nCollision' = IF mState = "Fetching" /\ r # NullRecord /\ r.contacts # {}
                     THEN nCollision + 1 ELSE nCollision
    /\ IF mState = "Fetching" THEN OnRecordFoundFetching(r)
       ELSE IF r = NullRecord THEN OnRecordFoundBindingNull
       ELSE OnRecordFoundBinding(r)

\* onError followed by a new run().
OnError_Retry ==
    /\ last' = [n |-> last.n + 1, cb |-> "error", state |-> mState, r |-> NullRecord]
    /\ setCalls' = Append(setCalls, Null)
    /\ RunFetch(mConferenceAddr)
    /\ UNCHANGED <<mState, mConferenceAddr, logged, halted, nBind, nChange,
                   nCollision, bindUri>>

\* ConferenceAddressGenerator::onError
OnError ==
    /\ last' = [n |-> last.n + 1, cb |-> "error", state |-> mState, r |-> NullRecord]
    /\ setCalls' = Append(setCalls, Null)
    /\ pending' = NoRequest
    /\ UNCHANGED <<mState, mConferenceAddr, logged, halted, nFetch, nBind, nChange,
                   nCollision, lastFetch, bindUri>>

(***************************************************************************)
(* The registrar: it answers the request outstanding, once, with a record  *)
(* or with an error.                                                       *)
(***************************************************************************)
FetchAnswered(r) ==
    /\ ~halted
    /\ pending.kind = "fetch"
    /\ (r # NullRecord /\ r.contacts # {}) => nCollision < MaxCollisions
    /\ OnRecordFound(r)
    /\ UNCHANGED <<started, late, pushVars, logVars>>

BindAnswered(r) ==
    /\ ~halted
    /\ pending.kind = "bind"
    /\ OnRecordFound(r)
    /\ UNCHANGED <<started, late, pushVars, logVars>>

RequestFailed ==
    /\ ~halted
    /\ pending.kind # "none"
    /\ OnError
    /\ UNCHANGED <<started, late, pushVars, logVars>>

NextConf ==
    \/ Run
    \/ \E r \in Records : FetchAnswered(r)
    \/ FetchAnswered(NullRecord)
    \/ \E r \in Records : BindAnswered(r)
    \/ BindAnswered(NullRecord)
    \/ RequestFailed

(***************************************************************************)
(* Callbacks delivered to an allocator that has no request outstanding: a  *)
(* further record-found or a further error, after the exchange has ended.  *)
(***************************************************************************)
LateRecordFound(r) ==
    /\ ~halted /\ started
    /\ pending.kind = "none"
    /\ late < MaxLate
    /\ (mState = "Fetching" /\ r # NullRecord /\ r.contacts # {}) => nCollision < MaxCollisions
    /\ late' = late + 1
    /\ OnRecordFound(r)
    /\ UNCHANGED <<started, pushVars, logVars>>

LateError ==
    /\ ~halted /\ started
    /\ pending.kind = "none"
    /\ late < MaxLate
    /\ late' = late + 1
    /\ OnError
    /\ UNCHANGED <<started, pushVars, logVars>>

NextConfLate ==
    \/ NextConf
    \/ LateError
    \/ \E r \in Records : LateRecordFound(r)
    \/ LateRecordFound(NullRecord)

(***************************************************************************)
(* FilesystemEventLogWriter                                                *)
(***************************************************************************)
\* The users of the From and To headers.
Users == {"alice", "bob"}
\* mStatusCode, as set by setStatusCode.
StatusCodes == {200, 404, 500}
\* The files a write can touch: a user's log, the error log.
Targets == Users \cup {"errors"}
\* What the file system does with a file: "openFails" makes openPath return
\* -1, "writeFails" makes ::write return -1.
FsOutcomes == [Targets -> {"ok", "openFails", "writeFails"}]

\* The event logs: RegistrationLog, CallLog, MessageLog, AuthLog; From and To
\* are different users.
EventLogs ==
    {ev \in [type : {"Registration"}, from : Users, to : {"-"}, status : StatusCodes,
             report : {"-"}, userExists : {TRUE}]
            \cup
            [type : {"Call"}, from : Users, to : Users, status : StatusCodes,
             report : {"-"}, userExists : {TRUE}]
            \cup
            [type : {"Message"}, from : Users, to : Users, status : StatusCodes,
             report : {"Reception", "Delivery"}, userExists : {TRUE}]
            \cup
            [type : {"Auth"}, from : Users, to : Users, status : StatusCodes,
             report : {"-"}, userExists : BOOLEAN] :
        ev.from # ev.to}

NoWrite == [type |-> "none"]

\* After FilesystemEventLogWriter::FilesystemEventLogWriter: nothing written.
InitLog ==
    /\ userLog = [u \in Users |-> <<>>]
    /\ errorLog = <<>>
    /\ nWrites = 0
    /\ lastWrite = NoWrite
    /\ fsState \in FsOutcomes

\* The Service and the allocator run on a file system that works.
Init == InitPush /\ InitConf /\ InitLog /\ fsState = [t \in Targets |-> "ok"]

\* The event-log writer runs on any file system.
InitAnyFs == InitPush /\ InitConf /\ InitLog

\* openPath(...) != -1
OpenPath(fs, target) == fs[target] # "openFails"

\* ::write(fd, msg) on the file of `user`; a failure is logged and ignored.
WriteUser(fs, ul, user, msg) ==
    IF fs[user] = "ok" THEN [ul EXCEPT ![user] = Append(@, msg)] ELSE ul

\* The entry of the error log: errors/<kind>/<code>, and the text.
ErrorEntry(log, kind) == [kind |-> kind, code |-> log.status, msg |-> log]

\* writeErrorLog(log, kind, logstr)
WriteErrorLog(fs, el, log, kind) ==
    IF ~OpenPath(fs, "errors") THEN el
    ELSE IF fs["errors"] = "ok" THEN Append(el, ErrorEntry(log, kind))
    ELSE el

\* writeRegistrationLog: the states of the user logs and of the error log.
WriteRegistrationLog(fs, ul, el, rlog) ==
    IF ~OpenPath(fs, rlog.from) THEN [user |-> ul, error |-> el]
    ELSE [user |-> WriteUser(fs, ul, rlog.from, rlog),
          error |-> IF rlog.status >= 300
                    THEN WriteErrorLog(fs, el, rlog, "registers") ELSE el]

\* writeCallLog
WriteCallLog(fs, ul, el, clog) ==
    LET ul1 == IF OpenPath(fs, clog.from) THEN WriteUser(fs, ul, clog.from, clog) ELSE ul
        ul2 == IF clog.status # 404 /\ OpenPath(fs, clog.to)
               THEN WriteUser(fs, ul1, clog.to, clog) ELSE ul1
    IN [user |-> ul2,
        error |-> IF clog.status >= 300 THEN WriteErrorLog(fs, el, clog, "calls") ELSE el]

\* The user whose log a message log goes to.
MessageLogUser(mlog) == IF mlog.report = "Reception" THEN mlog.from ELSE mlog.to

\* writeMessageLog
WriteMessageLog(fs, ul, el, mlog) ==
    IF ~OpenPath(fs, MessageLogUser(mlog)) THEN [user |-> ul, error |-> el]
    ELSE [user |-> IF ~(mlog.report = "Delivery" /\ mlog.status = 404)
                   THEN WriteUser(fs, ul, MessageLogUser(mlog), mlog) ELSE ul,
          error |-> IF mlog.status >= 300
                    THEN WriteErrorLog(fs, el, mlog, "messages") ELSE el]

\* writeAuthLog
WriteAuthLog(fs, ul, el, alog) ==
    [user |-> IF alog.userExists /\ OpenPath(fs, alog.from)
              THEN WriteUser(fs, ul, alog.from, alog) ELSE ul,
     error |-> WriteErrorLog(fs, el, alog, "auth")]

\* FilesystemEventLogWriter::write
Write(evlog) ==
    LET fs == fsState
        r == IF evlog.type = "Registration" THEN WriteRegistrationLog(fs, userLog, errorLog, evlog)
             ELSE IF evlog.type = "Call" THEN WriteCallLog(fs, userLog, errorLog, evlog)
             ELSE IF evlog.type = "Message" THEN WriteMessageLog(fs, userLog, errorLog, evlog)
             ELSE WriteAuthLog(fs, userLog, errorLog, evlog)
    IN /\ nWrites < MaxWrites
       /\ nWrites' = nWrites + 1
       /\ userLog' = r.user
       /\ errorLog' = r.error
       /\ lastWrite' = evlog
       /\ UNCHANGED <<fsState, pushVars, confVars>>

NextLog == \E evlog \in EventLogs : Write(evlog)

Spec == Init /\ [][NextPush]_vars

SpecConf == Init /\ [][NextConf]_vars

SpecConfLate == Init /\ [][NextConfLate]_vars

SpecLog == InitAnyFs /\ [][NextLog]_vars

(***************************************************************************)
(* Properties of the push-notification Service, checked under Spec.  Every *)
(* operation records itself in ret, so a step with ret'.op = "x" is a call *)
(* of x on the registry mClients, and ret'.arg is its argument.            *)
(***************************************************************************)

\* C1: makeRequest resolves the building client in priority order: the
\* non-null "generic" client, else the non-null client named by the provider
\* tag, else the non-null "fallback" client; it fails with UnsupportedProvider
\* exactly when none of the three exists; the registry is left unchanged.
C1_MakeRequestOrder ==
    [][ret'.op = "makeRequest" =>
         LET tag == ret'.arg
             g == Has(mClients, "generic")
             t == Has(mClients, tag)
             f == Has(mClients, "fallback")
         IN /\ mClients' = mClients
            /\ g => ret'.client = "generic"
            /\ (~g /\ t) => ret'.client = tag
            /\ (~g /\ ~t /\ f) => ret'.client = "fallback"
            /\ (ret'.out = "UnsupportedProvider") <=> (~g /\ ~t /\ ~f)
            /\ (ret'.out = "ok") <=> (g \/ t \/ f)]_vars

\* C1 witness: with no generic client and a provider tag that names no
\* client, the request was built by the fallback client.
C1_Witness ==
    /\ ret.op = "makeRequest" /\ ret.out = "ok"
    /\ ret.client = "fallback" /\ ret.arg # "fallback"
    /\ ~Find(mClients, "generic") /\ ~Find(mClients, ret.arg)
    /\ Cardinality(DOMAIN mClients) >= 2

\* C2: sendPush hands the request to exactly one client: the non-null client
\* registered under the request's appIdentifier, else the non-null "fallback"
\* client; with neither it fails with NoClientAvailable and no client
\* receives the request.
C2_SendPushRouting ==
    [][ret'.op = "sendPush" =>
         LET appId == ret'.arg
             target == IF Has(mClients, appId) THEN appId
                       ELSE IF Has(mClients, "fallback") THEN "fallback"
                       ELSE "none"
         IN /\ ret'.client = target
            /\ DOMAIN mClients' = DOMAIN mClients
            /\ \A k \in DOMAIN mClients : k # target => mClients'[k] = mClients[k]
            /\ (ret'.out = "NoClientAvailable") <=> (target = "none")
            /\ target # "none" =>
                 \/ /\ ret'.out = "ok"
                    /\ mClients'[target].queue = mClients[target].queue + 1
                 \/ /\ ret'.out = "QueueFull"
                    /\ mClients' = mClients]_vars

\* C2 witness: a request whose appIdentifier names no client was queued on the
\* fallback client, and on no other client of the registry.
C2_Witness ==
    /\ ret.op = "sendPush" /\ ret.out = "ok"
    /\ ret.client = "fallback" /\ ret.arg # "fallback"
    /\ mClients["fallback"].queue = 1
    /\ \E k \in DOMAIN mClients : k # "fallback" /\ ClientIsIdle(mClients[k])

\* C3: a setupFirebaseClients call with an appId in both lists
\* fails with DuplicateAppId and no client created during the call remains
\* registered (a registry that was empty is left empty).
C3_DuplicateLeavesRegistryEmpty ==
    [][(ret'.op = "setupFirebaseClients" /\ ret'.arg = "common") =>
         /\ ret'.out = "DuplicateAppId"
         /\ mClients' = mClients]_vars

\* C9: isIdle() is true if and only if every client of the
\* registry is idle (nothing queued, nothing in flight), a null entry being
\* no client; with an empty registry it is true.
C9_IsIdleIffAllClientsIdle ==
    ret.op = "isIdle" =>
      (ret.out = "true") <=>
        (\A k \in DOMAIN mClients : mClients[k] # Null => ClientIsIdle(mClients[k]))

C11_SetupGenericClientMethod ==
    [][ret'.op = "setupGenericClient" =>
         IF ret'.arg \in {"HttpGet", "HttpPost"}
         THEN /\ ret'.out = "ok"
              /\ DOMAIN mClients' = (DOMAIN mClients) \cup {"generic"}
              /\ mClients'["generic"].kind \in {"GenericHttp", "GenericHttp2"}
              /\ mClients'["generic"].queue = 0 /\ mClients'["generic"].inflight = 0
              /\ \A k \in DOMAIN mClients : k # "generic" => mClients'[k] = mClients[k]
         ELSE /\ ret'.out = "InvalidArgument"
              /\ mClients' = mClients]_vars

\* C11 witness: a call with another method failed with InvalidArgument on a
\* registry that holds an HTTP generic client, and that client is still there.
C11_Witness ==
    /\ ret.op = "setupGenericClient" /\ ret.out = "InvalidArgument"
    /\ ret.arg = "Other"
    /\ Find(mClients, "generic") /\ mClients["generic"].kind = "GenericHttp"

\* C12: in setupiOSClient a certificate whose AppleClient cannot be built is
\* skipped and the scan goes on: every other entry of the directory that ends
\* in ".pem" gets an Apple client under its name minus the suffix, in whatever
\* order the entries are read; no entry is created (or changed) under the
\* failing certificate's name, and no entry under any other name.
C12_TlsFailureSkipped ==
    [][(ret'.op = "setupiOSClient" /\ ret'.arg = "opened") =>
         LET certs == {ret'.certs[i] : i \in DOMAIN ret'.certs}
             failing == ret'.failing
             built == {n \in {"app1", "app2"} :
                         (n \o ".pem") \in certs /\ (n \o ".pem") \notin failing}
         IN /\ \A n \in built : Find(mClients', n) /\ mClients'[n].kind = "Apple"
            /\ DOMAIN mClients' = (DOMAIN mClients) \cup built
            /\ \A k \in DOMAIN mClients : k \notin built => mClients'[k] = mClients[k]]_vars

\* C12 witness: the certificates were read as app1.pem, app2.pem; app1.pem
\* failed first, app2 has its client and the registry has no entry app1.
C12_Witness ==
    /\ ret.op = "setupiOSClient" /\ ret.arg = "opened"
    /\ ret.certs = <<"app1.pem", "app2.pem">>
    /\ ret.failing = {"app1.pem"}
    /\ Find(mClients, "app2") /\ mClients["app2"].kind = "Apple"
    /\ ~Find(mClients, "app1")

\* C14: after any sequence of setup operations, makeRequest, sendPush and
\* isIdle never dereference a null registry entry: the client makeRequest or
\* sendPush resolved is not null, isIdle has not called isIdle() through a
\* null entry, and the process has not crashed.
C14_NullEntryNeverDereferenced ==
    /\ alive
    /\ (ret.op \in {"makeRequest", "sendPush"} /\ ret.client # "none") =>
         mClients[ret.client] # Null
    /\ ret.op = "isIdle" =>
         /\ ~IsIdleDerefsNull(mClients)
         /\ ret.out \in {"true", "false"}

(***************************************************************************)
(* Properties of the ConferenceAddressGenerator, checked under SpecConf    *)
(* (C8 under SpecConfLate).                                                *)
(***************************************************************************)
\* The chat room's conference address: the argument of the last call of
\* setConferenceAddress, if there was one.
AddressSet == setCalls # <<>>
ConferenceAddress == setCalls[Len(setCalls)]
\* A GRUU is published: the chat room's conference address is an address.
Published == AddressSet /\ ConferenceAddress # Null

\* C4: the bind is issued only for the candidate URI of the most recent
\* fetch, and only when that fetch was answered with an empty or absent
\* record; an address is published only by a record delivered in the Binding
\* state, after that bind.
C4_BindOnlyAfterEmptyFetch ==
    /\ nBind > 0 =>
         /\ mState = "Binding"
         /\ bindUri = lastFetch.uri
         /\ bindUri = AsStringUriOnly(mConferenceAddr)
         /\ lastFetch.answer \in {"empty", "absent"}
    /\ mState = "Binding" => nBind > 0
    /\ \A i \in DOMAIN setCalls :
         setCalls[i] # Null =>
           /\ nBind > 0
           /\ pending.kind = "none"
           /\ last.cb = "record" /\ last.state = "Binding"

\* C4 witness: after a collision, a GRUU was published for the second
\* candidate, whose fetch was answered with an empty record.
C4_Witness ==
    /\ Published
    /\ nCollision = 1
    /\ lastFetch.answer = "empty"
    /\ bindUri = lastFetch.uri

\* C5: every non-empty record delivered in Fetching causes one
\* re-randomisation and one new fetch, the first empty or absent record
\* causes the one bind: with k collisions there are k + 1 fetches; and after
\* the bind was answered with a record whose latest contact carries the
\* public GRUU g, the chat room's conference address is g.
C5_FetchesBindAndPublishedGruu ==
    /\ started => nFetch = nCollision + 1
    /\ ~started => nFetch = 0
    /\ nChange = nCollision
    /\ nBind = IF mState = "Binding" THEN 1 ELSE 0
    /\ (lastFetch.answer \in {"empty", "absent"}) <=> (mState = "Binding")
    /\ (/\ last.cb = "record" /\ last.state = "Binding"
        /\ last.r # NullRecord /\ last.r.contacts # {}
        /\ \E c \in last.r.contacts :
             /\ \A d \in last.r.contacts : d.updated <= c.updated
             /\ c.gruu # "none") =>
          \E c \in last.r.contacts :
             /\ \A d \in last.r.contacts : d.updated <= c.updated
             /\ AddressSet
             /\ ConferenceAddress = [uri |-> "sip:conf@conf;gr=" \o c.gruu]

\* C5 witness: two collisions, three fetches, one bind, and the GRUU of the
\* latest of two contacts published.
C5_Witness ==
    /\ nCollision = 2 /\ nFetch = 3 /\ nBind = 1
    /\ last.cb = "record" /\ last.state = "Binding"
    /\ last.r # NullRecord
    /\ last.r.contacts = {[updated |-> 1, gruu |-> "g1"], [updated |-> 2, gruu |-> "g2"]}
    /\ ConferenceAddress = [uri |-> "sip:conf@conf;gr=g2"]

\* The record delivered in Binding had no contact (BindFailed), or its latest
\* contact had no public GRUU (NoGruu).
BindFailedOrNoGruu ==
    /\ last.cb = "record" /\ last.state = "Binding"
    /\ last.r # NullRecord
    /\ \/ last.r.contacts = {}
       \/ \E c \in last.r.contacts :
            /\ \A d \in last.r.contacts : d.updated <= c.updated
            /\ c.gruu = "none"

\* C6: after BindFailed or NoGruu the chat room's conference
\* address has been nulled, and no GRUU is published.
C6_BindFailureNullsAddress ==
    BindFailedOrNoGruu => (AddressSet /\ ConferenceAddress = Null)

\* C7: an error reported in either phase sets the chat room's conference
\* address to null, and the allocator emits no fetch and no bind after it.
C7_ErrorNullsAddressAndStops ==
    last.cb = "error" =>
      /\ AddressSet /\ ConferenceAddress = Null
      /\ pending.kind = "none"
      /\ nFetch = nCollision + 1
      /\ nBind = IF last.state = "Binding" THEN 1 ELSE 0

\* C7 witness: an error in the Binding phase, after one collision.
C7_Witness ==
    /\ last.cb = "error" /\ last.state = "Binding"
    /\ nCollision = 1
    /\ ConferenceAddress = Null

\* A collision was just delivered: a non-empty record, in Fetching.
CollisionDelivered ==
    /\ last.cb = "record" /\ last.state = "Fetching"
    /\ last.r # NullRecord /\ last.r.contacts # {}

\* C13 (as claimed): the collision retry is capped: once the registrar has
\* reported the maximum number of collisions in a row (here, at most
\* MaxCollisions of them) the allocator has stopped fetching and has surfaced
\* AddressExhaustion.
C13_CollisionRetryCapped ==
    nCollision >= MaxCollisions =>
      /\ pending.kind # "fetch"
      /\ logged = "AddressExhaustion"

\* C13 (amended): the collision retry is not capped: every collision, however
\* many came before it, causes one re-randomisation and one new fetch, and
\* the allocator never surfaces AddressExhaustion; a run ends only when the
\* registrar answers with an empty or absent record or with an error.
C13_EveryCollisionRefetches ==
    /\ [](logged # "AddressExhaustion")
    /\ [][(last'.n = last.n + 1 /\ CollisionDelivered') =>
            /\ nFetch' = nFetch + 1
            /\ nChange' = nChange + 1
            /\ pending'.kind = "fetch"
            /\ mState' = "Fetching"
            /\ setCalls' = setCalls]_vars

\* C13 witness: after MaxCollisions collisions in a row the allocator has one
\* more fetch outstanding and has surfaced nothing.
C13_Witness ==
    /\ CollisionDelivered
    /\ nCollision = MaxCollisions
    /\ nFetch = MaxCollisions + 1
    /\ pending.kind = "fetch"
    /\ logged = "none" /\ setCalls = <<>>

\* C15: a null record is handled in both states: delivered in Fetching it is
\* treated like an empty record (the allocator moves to Binding and issues the
\* bind); delivered in Binding it is treated as a bind failure with no
\* contacts (BindFailed), it is not dereferenced and no address is published.
C15_NullRecordHandled ==
    (last.cb = "record" /\ last.r = NullRecord) =>
      IF last.state = "Fetching"
      THEN /\ mState = "Binding"
           /\ pending.kind = "bind"
           /\ lastFetch.answer = "absent"
      ELSE /\ logged = "BindFailed"
           /\ ~Published

\* C8: once in Binding the candidate address is never
\* re-randomised or re-fetched, and once a GRUU is published no later
\* callback changes or clears the chat room's conference address.
C8_AddressImmutableOnceBound ==
    [][/\ mState = "Binding" =>
            /\ mState' = "Binding"
            /\ mConferenceAddr' = mConferenceAddr
            /\ nFetch' = nFetch
       /\ Published => (setCalls' # <<>> /\ setCalls'[Len(setCalls')] = ConferenceAddress)]_vars

(***************************************************************************)
(* Properties of the FilesystemEventLogWriter, checked under SpecLog.      *)
(***************************************************************************)
\* C16: a call log, and a message log of type Delivery, with status 404
\* writes no entry into the log of the destination user; and every
\* registration, call or message log with status >= 300 handed to write() is
\* appended to the error log (when the error log itself can be written),
\* whether or not the per-user log file could be opened.
C16_ErrorsAlwaysReported ==
    [][nWrites' = nWrites + 1 =>
         LET ev == lastWrite'
             fs == fsState
             kind == IF ev.type = "Registration" THEN "registers"
                     ELSE IF ev.type = "Call" THEN "calls" ELSE "messages"
         IN /\ (/\ ev.status = 404
                /\ \/ ev.type = "Call"
                   \/ ev.type = "Message" /\ ev.report = "Delivery") =>
                  userLog'[ev.to] = userLog[ev.to]
            /\ (/\ ev.type \in {"Registration", "Call", "Message"}
                /\ ev.status >= 300
                /\ fs["errors"] = "ok") =>
                  errorLog' = Append(errorLog, [kind |-> kind, code |-> ev.status, msg |-> ev])]_vars

====
